---- MODULE Spec2Model ----
(***************************************************************************)
(* Model of the OpenLibrary search application.                            *)
(*                                                                         *)
(*   src/components/datafetching.tsx   fetchBooks, BookCard, DataFetching  *)
(*   src/book/[id]/page.tsx            BookPage                            *)
(*                                                                         *)
(* Five specifications share the module:                                   *)
(*   FetchSpec   fetchBooks run on every argument triple of a bounded set  *)
(*   RenderSpec  the render-time expressions (slice, description, bio)     *)
(*   Spec        the two views, the query cache and the network            *)
(*   SearchSpec  Spec with the user staying on the search view             *)
(*   BookSpec    Spec with the user navigating and never typing            *)
(*                                                                         *)
(* Strings are sequences of one-character strings, so that percent         *)
(* encoding is computed.  An optional value is a sequence of length at     *)
(* most one: None for undefined, Some(v) for v.                            *)
(***************************************************************************)
EXTENDS Integers, Sequences, FiniteSets, TLC

VARIABLES
    \* FetchSpec: one call of fetchBooks
    fArgs, fPc, fRequests, fResult,
    \* RenderSpec: one render of a resolved value
    rInput, rPc, rOutput,
    \* Spec: the application; issued, failedKeys, movedKeys and nreq record
    \* what has happened: the requests of the last step, the keys whose fetch
    \* failed and the author keys a resolving record moved the author query
    \* onto since the last step of the user, and the number of requests so far
    route, search, queryType, bookId,
    booksQ, bookQ, authorsQ, fan,
    issued, failedKeys, movedKeys, nreq

fetchVars  == <<fArgs, fPc, fRequests, fResult>>
renderVars == <<rInput, rPc, rOutput>>
appVars    == <<route, search, queryType, bookId, booksQ, bookQ, authorsQ, fan,
                issued, failedKeys, movedKeys, nreq>>
vars       == <<fetchVars, renderVars, appVars>>

None    == <<>>
Some(v) == <<v>>

----------------------------------------------------------------------------
(* Bounds *)

\* longest search string handed to fetchBooks in FetchSpec
FetchMaxLen == 2
\* longest search string the user types in Spec (besides the initial one)
MaxSearchLen == 1
\* most author references in a work record
MaxAuthors == 2
\* most HTTP requests issued in one behaviour of Spec and of BookSpec
MaxRequests == 6
\* most HTTP requests issued in one behaviour of SearchSpec
MaxSearchRequests == 2
\* how far past the slice limit an upstream result list may go in RenderSpec
MaxExtraResults == 2

----------------------------------------------------------------------------
(* Strings and percent encoding *)

RECURSIVE Concat(_)
Concat(ss) == IF ss = <<>> THEN <<>> ELSE Head(ss) \o Concat(Tail(ss))

StringsUpTo(chars, n) == UNION {[1..k -> chars] : k \in 0..n}

\* characters encodeURIComponent leaves alone (the ones the model uses)
Unreserved == {"a", "t", "o", "l", "k", "i", "e", "n"}

\* UTF-8 percent escapes of the other characters of the model
PercentEscape == [c \in {" ", "&", "%"} |->
                    CASE c = " " -> <<"%", "2", "0">>
                      [] c = "&" -> <<"%", "2", "6">>
                      [] c = "%" -> <<"%", "2", "5">>]

FetchChars == {"a", " ", "&", "%"}

encodeURIComponent(s) ==
    Concat([i \in 1..Len(s) |->
              IF s[i] \in Unreserved THEN <<s[i]>> ELSE PercentEscape[s[i]]])

----------------------------------------------------------------------------
(* fetchBooks *)

QueryTypes == {"title", "author", "q", "authors"}

\* the page parameter with its default
pageOrDefault(page) == IF page = None THEN 1 ELSE page[1]

\* a plausible slip: every mode sent to the book search endpoint
fetchBooksUrlOneEndpoint(qt, s, page) ==
    <<"https://openlibrary.org/search.json?", qt, "=">>
      \o encodeURIComponent(s)
      \o <<"&page=", ToString(pageOrDefault(page))>>

\* the URL fetchBooks builds, as the sequence of the template's pieces
fetchBooksUrl(qt, s, page) ==
    IF qt = "authors"
    THEN <<"https://openlibrary.org/search/authors.json?q=">>
           \o encodeURIComponent(s)
    ELSE <<"https://openlibrary.org/search.json?", qt, "=">>
           \o encodeURIComponent(s)
           \o <<"&page=", ToString(pageOrDefault(page))>>

\* fetchBooks up to its await: it has returned [] or has a URL to GET
fetchBooksStart(qt, s, page) ==
    IF s = <<>>
    THEN [returned |-> TRUE, url |-> <<>>]
    ELSE [returned |-> FALSE, url |-> fetchBooksUrl(qt, s, page)]

\* res.data.docs ?? res.data.entries ?? []
docsOrEntries(data) ==
    IF data.docs # None THEN data.docs[1]
    ELSE IF data.entries # None THEN data.entries[1]
    ELSE <<>>

----------------------------------------------------------------------------
(* FetchSpec: fetchBooks on each argument triple *)

FetchStrings == StringsUpTo(FetchChars, FetchMaxLen)
PageArgs     == {None, Some(1), Some(2)}
DocLists     == {None, Some(<<>>), Some(<<"doc">>)}
EntryLists   == {None, Some(<<>>), Some(<<"entry">>)}
Payloads     == [docs : DocLists, entries : EntryLists]

\* lines 34-51: the guard, the URL and the GET
FetchBooksCall ==
    /\ fPc = "start"
    /\ LET st == fetchBooksStart(fArgs.queryType, fArgs.search, fArgs.page)
       IN IF st.returned
          THEN /\ fPc' = "returned"
               /\ fResult' = Some(<<>>)
               /\ fRequests' = fRequests
          ELSE /\ fPc' = "awaiting"
               /\ fRequests' = Append(fRequests, st.url)
               /\ fResult' = fResult
    /\ UNCHANGED fArgs
    /\ UNCHANGED <<renderVars, appVars>>

\* line 52: the GET resolved
AxiosResolve ==
    /\ fPc = "awaiting"
    /\ \E data \in Payloads : fResult' = Some(docsOrEntries(data))
    /\ fPc' = "returned"
    /\ UNCHANGED <<fArgs, fRequests>>
    /\ UNCHANGED <<renderVars, appVars>>

\* line 51: the GET rejected, and fetchBooks with it
AxiosReject ==
    /\ fPc = "awaiting"
    /\ fPc' = "threw"
    /\ UNCHANGED <<fArgs, fRequests, fResult>>
    /\ UNCHANGED <<renderVars, appVars>>

FetchNext ==
    \/ FetchBooksCall
    \/ AxiosResolve
    \/ AxiosReject

----------------------------------------------------------------------------
(* Render-time expressions *)

SliceLimit == 15

Min(a, b) == IF a < b THEN a ELSE b

\* a plausible slip: the slice end taken as an inclusive index
cardsInclusive(data) ==
    IF data = None THEN <<>>
    ELSE SubSeq(data[1], 1, Min(SliceLimit + 1, Len(data[1])))

\* data?.slice(0, 15).map(...): the items that get a BookCard, in order
cards(data) ==
    IF data = None THEN <<>>
    ELSE SubSeq(data[1], 1, Min(SliceLimit, Len(data[1])))

NoDescription == "No description available"
NoBiography   == "No biography available"

\* A description or bio field as the API sends it: a string, or an object
\* whose value may be missing.  text is the string, or the object's value.
FieldTexts  == {"", "some text"}
FieldValues == [type : {"string"}, text : {Some(t) : t \in FieldTexts}]
                 \cup [type : {"object"}, text : {None} \cup {Some(t) : t \in FieldTexts}]
FieldOpts   == {None} \cup {Some(f) : f \in FieldValues}

\* JavaScript truthiness of the field: undefined and "" are falsy, any object
\* is truthy
truthy(field) ==
    /\ field # None
    /\ field[1].type = "string" => field[1].text[1] # ""

\* typeof x === 'string' ? x : x.value || fallback
textOr(f, fallback) ==
    IF f.type = "string" THEN f.text[1]
    ELSE IF f.text # None /\ f.text[1] # "" THEN f.text[1]
    ELSE fallback

\* a plausible slip: the section rendered unconditionally, with the fallback
descriptionSectionAlways(description) ==
    IF truthy(description) THEN Some(textOr(description[1], NoDescription))
    ELSE Some(NoDescription)

\* {book.description && (...)}: the paragraph rendered, if any
descriptionSection(description) ==
    IF truthy(description) THEN Some(textOr(description[1], NoDescription))
    ELSE None

\* {authors?.some(author => author.bio) && (...)}: per author, the paragraph
\* rendered, if any; None when the section is left out
bioSection(authors) ==
    IF authors = None THEN None
    ELSE IF \A i \in 1..Len(authors[1]) : ~truthy(authors[1][i].bio) THEN None
    ELSE Some([i \in 1..Len(authors[1]) |->
                 IF truthy(authors[1][i].bio)
                 THEN Some([name |-> authors[1][i].name,
                            text |-> textOr(authors[1][i].bio[1], NoBiography)])
                 ELSE None])

----------------------------------------------------------------------------
(* RenderSpec: each expression on each input of a bounded set *)

ResultLists ==
    UNION {{[i \in 1..n |-> i], [i \in 1..n |-> n + 1 - i]} :
             n \in 0..(SliceLimit + MaxExtraResults)}

AuthorRecords == [name : {"A. Author"}, bio : FieldOpts]
AuthorData    == UNION {[1..k -> AuthorRecords] : k \in 0..MaxAuthors}

CardsInputs == [kind : {"cards"}, data : {None} \cup {Some(l) : l \in ResultLists}]
DescInputs  == [kind : {"description"}, data : FieldOpts]
BioInputs   == [kind : {"bio"}, data : {None} \cup {Some(a) : a \in AuthorData}]

RenderCards ==
    /\ rPc = "start" /\ rInput.kind = "cards"
    /\ rOutput' = cards(rInput.data)
    /\ rPc' = "rendered"
    /\ UNCHANGED rInput
    /\ UNCHANGED <<fetchVars, appVars>>

RenderDescription ==
    /\ rPc = "start" /\ rInput.kind = "description"
    /\ rOutput' = descriptionSection(rInput.data)
    /\ rPc' = "rendered"
    /\ UNCHANGED rInput
    /\ UNCHANGED <<fetchVars, appVars>>

RenderBiographies ==
    /\ rPc = "start" /\ rInput.kind = "bio"
    /\ rOutput' = bioSection(rInput.data)
    /\ rPc' = "rendered"
    /\ UNCHANGED rInput
    /\ UNCHANGED <<fetchVars, appVars>>

RenderNext ==
    \/ RenderCards
    \/ RenderDescription
    \/ RenderBiographies


----------------------------------------------------------------------------
(* The query cache: one entry per query key *)

\* Retries of a failed query function.  The QueryClient and its default
\* options are built outside the two views; neither useQuery call passes a
\* retry option of its own.
QueryRetry == 0

\* status and data as useQuery reports them; fetching: the query function is
\* running; req: the URL of its GET in flight, if it has one
IdleQuery ==
    [status |-> "pending", fetching |-> FALSE, data |-> None, req |-> None,
     failureCount |-> 0]

\* the query function has been started (a refetch keeps status and data)
Fetching(q, req) ==
    [q EXCEPT !.fetching = TRUE, !.req = req, !.failureCount = 0,
              !.status = IF q.data = None THEN "pending" ELSE q.status]

Succeeded(q, data) ==
    [q EXCEPT !.status = "success", !.fetching = FALSE, !.data = Some(data),
              !.req = None, !.failureCount = 0]

\* the query function threw and no retry is left (data is kept)
Failed(q) ==
    [q EXCEPT !.status = "error", !.fetching = FALSE, !.req = None]

\* isLoading: no data yet and the first fetch is running
isLoading(q) == q.status = "pending" /\ q.fetching
isError(q)   == q.status = "error"

\* an observer that mounts or moves to another key starts the query function
\* unless it is already running; with data in the cache, only if it is stale
shouldFetch(q, stale) == ~q.fetching /\ (q.data = None \/ stale)

----------------------------------------------------------------------------
(* DataFetching: the search view *)

Tolkien       == <<"t", "o", "l", "k", "i", "e", "n">>
SearchChars   == {"a"}
SearchStrings == StringsUpTo(SearchChars, MaxSearchLen) \cup {Tolkien}
BooksKeys     == QueryTypes \X SearchStrings

\* a plausible slip: the search string left out of the cache key
queryKeyNoSearch(qt, s) == <<qt, <<>> >>

\* queryKey: ["books", queryType, search]
queryKey(qt, s) == <<qt, s>>

\* a plausible slip: the query left enabled for every input
enabledAlways(s) == TRUE

\* enabled: !!search
enabled(s) == s # <<>>

BooksRequest(url) == [kind |-> "books", url |-> url]

\* what upstream answers to a search: the docs it sends carry the URL asked
UpstreamShapes == {"docs", "neither"}
UpstreamPayload(url, shape) ==
    CASE shape = "docs"    -> [docs |-> Some(<<[from |-> url, n |-> 1], [from |-> url, n |-> 2]>>),
                               entries |-> None]
      [] shape = "neither" -> [docs |-> None, entries |-> None]

\* a plausible slip: a rejected GET caught and sent again
fetchBooksOnRejectAgain(url) == [throws |-> FALSE, again |-> Some(url)]

\* await axios.get(url) stands in no try block: a rejection leaves fetchBooks
fetchBooksOnReject(url) == [throws |-> TRUE, again |-> None]

\* The useQuery call of the render with state (qt, s): the cache and the
\* requests after its observer has looked at the key.
ObserveBooks(bq, qt, s, stale) ==
    LET k  == queryKey(qt, s)
        st == fetchBooksStart(qt, s, None)
    IN IF ~enabled(s) \/ ~shouldFetch(bq[k], stale)
       THEN [q |-> bq, issued |-> <<>>]
       ELSE IF st.returned
       THEN [q |-> [bq EXCEPT ![k] = Succeeded(@, <<>>)], issued |-> <<>>]
       ELSE [q |-> [bq EXCEPT ![k] = Fetching(@, Some(st.url))],
             issued |-> <<BooksRequest(st.url)>>]

\* what the search view shows
currentBooks == booksQ[queryKey(queryType, search)]
searchCards  == IF route = "search" THEN cards(currentBooks.data) ELSE <<>>
searchLoadingShown == route = "search" /\ isLoading(currentBooks)
searchErrorShown   == route = "search" /\ isError(currentBooks)
searchNoResultsShown ==
    /\ route = "search"
    /\ currentBooks.data = Some(<<>>)
    /\ ~isLoading(currentBooks) /\ ~isError(currentBooks)

----------------------------------------------------------------------------
(* BookPage: the detail view *)

BookIds     == {"", "OL1W"}
\* the author references of a record: the first k authors upstream knows
AuthorKey(i) == "/authors/OL" \o ToString(i) \o "A"
AuthorLists == {[i \in 1..k |-> AuthorKey(i)] : k \in 0..MaxAuthors}
WorkRecords == [authors : {None} \cup {Some(l) : l \in AuthorLists}]

WorkRequest(id)    == [kind |-> "work", url |-> <<"https://openlibrary.org/works/", id, ".json">>]
AuthorRequest(key) == [kind |-> "author", url |-> <<"https://openlibrary.org", key, ".json">>]

\* a plausible slip: the work query left enabled for every identifier
bookEnabledAlways(id) == TRUE

\* enabled: !!bookId
bookEnabled(id) == id # ""

\* enabled: !!book?.authors (an empty array is truthy)
authorsEnabled(b) == b # None /\ b[1].authors # None

\* queryKey: ["authors", book?.authors]
authorsKey(b) == IF b = None THEN None ELSE b[1].authors

\* a plausible slip: the lookups chained, the first one sent alone
authorLookupsFirstOnly(refs) ==
    IF refs = None \/ refs = Some(<<>>) THEN <<>>
    ELSE <<AuthorRequest(refs[1][1])>>

\* book.authors.map(({ author }) => axios.get(...)): one GET per reference,
\* all sent before the await; none if (!book?.authors)
authorLookups(refs) ==
    IF refs = None THEN <<>>
    ELSE [i \in 1..Len(refs[1]) |-> AuthorRequest(refs[1][i])]

RECURSIVE FulfilledOf(_, _)
FulfilledOf(refs, lookups) ==
    IF refs = <<>> THEN <<>>
    ELSE (IF Head(lookups) = "ok" THEN <<Head(refs)>> ELSE <<>>)
           \o FulfilledOf(Tail(refs), Tail(lookups))

\* a plausible slip: the lookups awaited with allSettled, the fulfilled kept
promiseAllSettled(refs, lookups) ==
    IF \E i \in 1..Len(lookups) : lookups[i] = "pending"
    THEN [state |-> "pending", value |-> <<>>]
    ELSE [state |-> "fulfilled", value |-> FulfilledOf(refs, lookups)]

\* await Promise.all(authorPromises) and responses.map(res => res.data): an
\* author record is stood for by the reference it was looked up with
promiseAll(refs, lookups) ==
    IF \E i \in 1..Len(lookups) : lookups[i] = "failed"
    THEN [state |-> "rejected", value |-> <<>>]
    ELSE IF \A i \in 1..Len(lookups) : lookups[i] = "ok"
    THEN [state |-> "fulfilled", value |-> refs]
    ELSE [state |-> "pending", value |-> <<>>]

\* data: book of the first useQuery call: the cache entry of the key
bookData(wq, id) == wq[id].data

\* The first useQuery call of BookPage for the route parameter id.
ObserveBook(wq, id, stale) ==
    IF ~bookEnabled(id) \/ ~shouldFetch(wq[id], stale)
    THEN [q |-> wq, issued |-> <<>>]
    ELSE [q |-> [wq EXCEPT ![id] = Fetching(@, Some(WorkRequest(id).url))],
          issued |-> <<WorkRequest(id)>>]

\* The second useQuery call of BookPage, for the resolved record book: the
\* cache, the lookups of each key and the requests after its observer has
\* looked at the key.
ObserveAuthors(aq, fn, b, stale) ==
    LET refs == authorsKey(b)
        reqs == authorLookups(refs)
    IN IF ~authorsEnabled(b) \/ refs = None
       THEN [q |-> aq, fan |-> fn, issued |-> <<>>]
       ELSE IF ~shouldFetch(aq[refs[1]], stale)
       THEN [q |-> aq, fan |-> fn, issued |-> <<>>]
       ELSE IF reqs = <<>>
       THEN [q |-> [aq EXCEPT ![refs[1]] = Succeeded(@, <<>>)],
             fan |-> [fn EXCEPT ![refs[1]] = <<>>], issued |-> <<>>]
       ELSE [q |-> [aq EXCEPT ![refs[1]] = Fetching(@, None)],
             fan |-> [fn EXCEPT ![refs[1]] = [i \in 1..Len(reqs) |-> "pending"]],
             issued |-> reqs]

\* what the detail view shows
book        == bookData(bookQ, bookId)
bookLoading == isLoading(bookQ[bookId])
authorsQuery ==
    IF authorsKey(book) = None THEN IdleQuery ELSE authorsQ[authorsKey(book)[1]]
authors        == authorsQuery.data
authorsLoading == isLoading(authorsQuery)

\* a plausible slip: a failed author query treated like a missing work
bookViewAuthorsError ==
    IF route # "book" THEN "none"
    ELSE IF bookLoading \/ authorsLoading THEN "loading"
    ELSE IF book = None \/ isError(authorsQuery) THEN "not found"
    ELSE "content"

\* the three returns of BookPage: loading, "Book not found", the content
bookView ==
    IF route # "book" THEN "none"
    ELSE IF bookLoading \/ authorsLoading THEN "loading"
    ELSE IF book = None THEN "not found"
    ELSE "content"

\* {authors && authors.length > 0 && ...}: the names on the "by" line
authorNames ==
    IF bookView = "content" /\ authors # None THEN authors[1] ELSE <<>>


----------------------------------------------------------------------------
(* Spec: the application *)

Budget(reqs) == nreq + Len(reqs) <= MaxRequests

\* the state once DataFetching has mounted at "/": useState("tolkien"),
\* useState("author"), and the first look of its observer at an empty cache
AppStart ==
    LET o == ObserveBooks([k \in BooksKeys |-> IdleQuery], "author", Tolkien, TRUE)
    IN [route |-> "search", search |-> Tolkien, queryType |-> "author",
        bookId |-> "",
        booksQ |-> o.q,
        bookQ |-> [id \in BookIds |-> IdleQuery],
        authorsQ |-> [l \in AuthorLists |-> IdleQuery],
        fan |-> [l \in AuthorLists |-> <<>>],
        issued |-> o.issued, failedKeys |-> {}, nreq |-> Len(o.issued)]

\* onChange of the input: setSearch and the render that follows
SetSearch(s) ==
    /\ route = "search"
    /\ s # search
    /\ \E stale \in BOOLEAN :
         LET o == ObserveBooks(booksQ, queryType, s, stale)
         IN /\ Budget(o.issued)
            /\ booksQ' = o.q
            /\ issued' = o.issued
            /\ nreq' = nreq + Len(o.issued)
    /\ search' = s
    /\ failedKeys' = {}
    /\ movedKeys' = {}
    /\ UNCHANGED <<route, queryType, bookId, bookQ, authorsQ, fan>>
    /\ UNCHANGED <<fetchVars, renderVars>>

\* onChange of the select: setQueryType and the render that follows
SetQueryType(qt) ==
    /\ route = "search"
    /\ qt # queryType
    /\ \E stale \in BOOLEAN :
         LET o == ObserveBooks(booksQ, qt, search, stale)
         IN /\ Budget(o.issued)
            /\ booksQ' = o.q
            /\ issued' = o.issued
            /\ nreq' = nreq + Len(o.issued)
    /\ queryType' = qt
    /\ failedKeys' = {}
    /\ movedKeys' = {}
    /\ UNCHANGED <<route, search, bookId, bookQ, authorsQ, fan>>
    /\ UNCHANGED <<fetchVars, renderVars>>

\* the link of a card (or the address bar): BookPage mounts with params.id
OpenBook(id) ==
    /\ route = "search"
    /\ \E staleBook \in BOOLEAN, staleAuthors \in BOOLEAN :
         LET ob == ObserveBook(bookQ, id, staleBook)
             oa == ObserveAuthors(authorsQ, fan, bookData(ob.q, id), staleAuthors)
         IN /\ Budget(ob.issued \o oa.issued)
            /\ bookQ' = ob.q
            /\ authorsQ' = oa.q
            /\ fan' = oa.fan
            /\ issued' = ob.issued \o oa.issued
            /\ nreq' = nreq + Len(ob.issued \o oa.issued)
    /\ route' = "book"
    /\ bookId' = id
    /\ failedKeys' = {}
    /\ movedKeys' = {}
    /\ UNCHANGED <<search, queryType, booksQ>>
    /\ UNCHANGED <<fetchVars, renderVars>>

\* a link back to "/": DataFetching mounts again, with its initial state
BackToSearch ==
    /\ route = "book"
    /\ \E stale \in BOOLEAN :
         LET o == ObserveBooks(booksQ, "author", Tolkien, stale)
         IN /\ Budget(o.issued)
            /\ booksQ' = o.q
            /\ issued' = o.issued
            /\ nreq' = nreq + Len(o.issued)
    /\ route' = "search"
    /\ search' = Tolkien
    /\ queryType' = "author"
    /\ failedKeys' = {}
    /\ movedKeys' = {}
    /\ UNCHANGED <<bookId, bookQ, authorsQ, fan>>
    /\ UNCHANGED <<fetchVars, renderVars>>

\* the GET of fetchBooks resolves: the result goes under the query's key
BooksResolve(k, shape) ==
    /\ booksQ[k].fetching /\ booksQ[k].req # None
    /\ booksQ' = [booksQ EXCEPT ![k] =
         Succeeded(@, docsOrEntries(UpstreamPayload(booksQ[k].req[1], shape)))]
    /\ issued' = <<>>
    /\ UNCHANGED <<route, search, queryType, bookId, bookQ, authorsQ, fan,
                   failedKeys, movedKeys, nreq>>
    /\ UNCHANGED <<fetchVars, renderVars>>

\* the GET of fetchBooks rejects
BooksReject(k) ==
    /\ booksQ[k].fetching /\ booksQ[k].req # None
    /\ LET url == booksQ[k].req[1]
           r   == fetchBooksOnReject(url)
       IN IF ~r.throws \/ booksQ[k].failureCount < QueryRetry
          THEN /\ Budget(<<url>>)
               /\ booksQ' = [booksQ EXCEPT ![k].failureCount =
                               IF r.throws THEN @ + 1 ELSE @]
               /\ issued' = <<BooksRequest(url)>>
               /\ nreq' = nreq + 1
          ELSE /\ booksQ' = [booksQ EXCEPT ![k] = Failed(@)]
               /\ issued' = <<>>
               /\ nreq' = nreq
    /\ failedKeys' = failedKeys \cup {<<"books", k>>}
    /\ UNCHANGED <<route, search, queryType, bookId, bookQ, authorsQ, fan, movedKeys>>
    /\ UNCHANGED <<fetchVars, renderVars>>

\* the GET of the work resolves; if its page is the one shown, the author
\* query gets its key from the record
WorkResolve(id, rec) ==
    /\ bookQ[id].fetching
    /\ LET wq == [bookQ EXCEPT ![id] = Succeeded(@, rec)]
           shown == route = "book" /\ bookId = id
           moved == authorsKey(bookData(wq, id)) # authorsKey(bookData(bookQ, id))
       IN /\ bookQ' = wq
          /\ IF shown /\ moved
             THEN \E stale \in BOOLEAN :
                    LET oa == ObserveAuthors(authorsQ, fan, bookData(wq, id), stale)
                    IN /\ Budget(oa.issued)
                       /\ authorsQ' = oa.q
                       /\ fan' = oa.fan
                       /\ issued' = oa.issued
                       /\ nreq' = nreq + Len(oa.issued)
                       /\ movedKeys' = IF oa.issued = <<>> THEN movedKeys
                                       ELSE movedKeys \cup {authorsKey(bookData(wq, id))[1]}
             ELSE /\ issued' = <<>>
                  /\ UNCHANGED <<authorsQ, fan, nreq, movedKeys>>
    /\ UNCHANGED <<route, search, queryType, bookId, booksQ, failedKeys>>
    /\ UNCHANGED <<fetchVars, renderVars>>

\* the GET of the work rejects
WorkReject(id) ==
    /\ bookQ[id].fetching
    /\ IF bookQ[id].failureCount < QueryRetry
       THEN /\ Budget(<<WorkRequest(id)>>)
            /\ bookQ' = [bookQ EXCEPT ![id].failureCount = @ + 1]
            /\ issued' = <<WorkRequest(id)>>
            /\ nreq' = nreq + 1
       ELSE /\ bookQ' = [bookQ EXCEPT ![id] = Failed(@)]
            /\ issued' = <<>>
            /\ nreq' = nreq
    /\ failedKeys' = failedKeys \cup {<<"book", id>>}
    /\ UNCHANGED <<route, search, queryType, bookId, booksQ, authorsQ, fan, movedKeys>>
    /\ UNCHANGED <<fetchVars, renderVars>>

\* One lookup of the fan-out for the references refs settles as outcome; the
\* query function, if it still awaits, goes on from Promise.all.
LookupSettles(refs, i, outcome) ==
    /\ i \in 1..Len(fan[refs]) /\ fan[refs][i] = "pending"
    /\ LET lookups == [fan[refs] EXCEPT ![i] = outcome]
           all     == promiseAll(refs, lookups)
       IN IF ~authorsQ[refs].fetching \/ all.state = "pending"
          THEN /\ fan' = [fan EXCEPT ![refs] = lookups]
               /\ issued' = <<>>
               /\ UNCHANGED <<authorsQ, failedKeys, movedKeys, nreq>>
          ELSE IF all.state = "fulfilled"
          THEN /\ fan' = [fan EXCEPT ![refs] = lookups]
               /\ authorsQ' = [authorsQ EXCEPT ![refs] = Succeeded(@, all.value)]
               /\ issued' = <<>>
               /\ UNCHANGED <<failedKeys, movedKeys, nreq>>
          ELSE IF authorsQ[refs].failureCount < QueryRetry
          THEN /\ Budget(authorLookups(Some(refs)))
               /\ fan' = [fan EXCEPT ![refs] = [j \in 1..Len(refs) |-> "pending"]]
               /\ authorsQ' = [authorsQ EXCEPT ![refs].failureCount = @ + 1]
               /\ issued' = authorLookups(Some(refs))
               /\ nreq' = nreq + Len(refs)
               /\ failedKeys' = failedKeys \cup {<<"authors", refs>>}
               /\ movedKeys' = movedKeys \ {refs}
          ELSE /\ fan' = [fan EXCEPT ![refs] = lookups]
               /\ authorsQ' = [authorsQ EXCEPT ![refs] = Failed(@)]
               /\ issued' = <<>>
               /\ nreq' = nreq
               /\ failedKeys' = failedKeys \cup {<<"authors", refs>>}
               /\ movedKeys' = movedKeys \ {refs}
    /\ UNCHANGED <<route, search, queryType, bookId, booksQ, bookQ>>
    /\ UNCHANGED <<fetchVars, renderVars>>

LookupOk(refs, i)   == LookupSettles(refs, i, "ok")
LookupFail(refs, i) == LookupSettles(refs, i, "failed")

\* the user stays on the search view and uses both controls
SearchNext ==
    \/ \E s \in SearchStrings : SetSearch(s) /\ nreq' <= MaxSearchRequests
    \/ \E qt \in QueryTypes : SetQueryType(qt) /\ nreq' <= MaxSearchRequests
    \/ \E k \in BooksKeys, shape \in UpstreamShapes : BooksResolve(k, shape)
    \/ \E k \in BooksKeys : BooksReject(k) /\ nreq' <= MaxSearchRequests

\* the user goes between the two views and leaves the search controls alone
BookNext ==
    \/ \E id \in BookIds : OpenBook(id)
    \/ BackToSearch
    \/ \E k \in BooksKeys, shape \in UpstreamShapes : BooksResolve(k, shape)
    \/ \E k \in BooksKeys : BooksReject(k)
    \/ \E id \in BookIds, rec \in WorkRecords : WorkResolve(id, rec)
    \/ \E id \in BookIds : WorkReject(id)
    \/ \E refs \in AuthorLists, i \in 1..MaxAuthors : LookupOk(refs, i)
    \/ \E refs \in AuthorLists, i \in 1..MaxAuthors : LookupFail(refs, i)

\* both views; the user clears and restores the initial search string
AppNext ==
    \/ \E s \in {<<>>, Tolkien} : SetSearch(s)
    \/ \E id \in BookIds : OpenBook(id)
    \/ BackToSearch
    \/ \E k \in BooksKeys, shape \in UpstreamShapes : BooksResolve(k, shape)
    \/ \E k \in BooksKeys : BooksReject(k)
    \/ \E id \in BookIds, rec \in WorkRecords : WorkResolve(id, rec)
    \/ \E id \in BookIds : WorkReject(id)
    \/ \E refs \in AuthorLists, i \in 1..MaxAuthors : LookupOk(refs, i)
    \/ \E refs \in AuthorLists, i \in 1..MaxAuthors : LookupFail(refs, i)

----------------------------------------------------------------------------
(* The three specifications *)

Init ==
    /\ fArgs = [queryType |-> "author", search |-> Tolkien, page |-> None]
    /\ fPc = "idle" /\ fRequests = <<>> /\ fResult = None
    /\ rInput = [kind |-> "none", data |-> None]
    /\ rPc = "idle" /\ rOutput = None
    /\ route = AppStart.route
    /\ search = AppStart.search
    /\ queryType = AppStart.queryType
    /\ bookId = AppStart.bookId
    /\ booksQ = AppStart.booksQ
    /\ bookQ = AppStart.bookQ
    /\ authorsQ = AppStart.authorsQ
    /\ fan = AppStart.fan
    /\ issued = AppStart.issued
    /\ failedKeys = AppStart.failedKeys
    /\ movedKeys = {}
    /\ nreq = AppStart.nreq

Next == AppNext
Spec == Init /\ [][Next]_vars

SearchSpec == Init /\ [][SearchNext]_vars
BookSpec   == Init /\ [][BookNext]_vars

FetchInit ==
    /\ fArgs \in [queryType : QueryTypes, search : FetchStrings, page : PageArgs]
    /\ fPc = "start"
    /\ fRequests = <<>>
    /\ fResult = None
    /\ rInput = [kind |-> "none", data |-> None]
    /\ rPc = "idle" /\ rOutput = None
    /\ route = AppStart.route
    /\ search = AppStart.search
    /\ queryType = AppStart.queryType
    /\ bookId = AppStart.bookId
    /\ booksQ = AppStart.booksQ
    /\ bookQ = AppStart.bookQ
    /\ authorsQ = AppStart.authorsQ
    /\ fan = AppStart.fan
    /\ issued = AppStart.issued
    /\ failedKeys = AppStart.failedKeys
    /\ movedKeys = {}
    /\ nreq = AppStart.nreq

FetchSpec == FetchInit /\ [][FetchNext]_vars

RenderInit ==
    /\ \/ rInput \in CardsInputs
       \/ rInput \in DescInputs
       \/ rInput \in BioInputs
    /\ rPc = "start"
    /\ rOutput = None
    /\ fArgs = [queryType |-> "author", search |-> Tolkien, page |-> None]
    /\ fPc = "idle" /\ fRequests = <<>> /\ fResult = None
    /\ route = AppStart.route
    /\ search = AppStart.search
    /\ queryType = AppStart.queryType
    /\ bookId = AppStart.bookId
    /\ booksQ = AppStart.booksQ
    /\ bookQ = AppStart.bookQ
    /\ authorsQ = AppStart.authorsQ
    /\ fan = AppStart.fan
    /\ issued = AppStart.issued
    /\ failedKeys = AppStart.failedKeys
    /\ movedKeys = {}
    /\ nreq = AppStart.nreq

RenderSpec == RenderInit /\ [][RenderNext]_vars

----------------------------------------------------------------------------
(* Helpers of the properties *)

\* the inverse of percent encoding, for the escapes of the model
RECURSIVE percentDecode(_)
percentDecode(t) ==
    IF t = <<>> THEN <<>>
    ELSE IF Head(t) # "%" THEN <<Head(t)>> \o percentDecode(Tail(t))
    ELSE IF Len(t) < 3 THEN <<"malformed">>
    ELSE LET c == CASE <<t[2], t[3]>> = <<"2", "0">> -> " "
                    [] <<t[2], t[3]>> = <<"2", "6">> -> "&"
                    [] <<t[2], t[3]>> = <<"2", "5">> -> "%"
                    [] OTHER -> "malformed"
         IN <<c>> \o percentDecode(SubSeq(t, 4, Len(t)))

\* only characters that stand for themselves in a query string, and escapes
UrlSafe(t) == \A i \in 1..Len(t) : t[i] \in Unreserved \cup {"%", "0", "2", "5", "6"}

IsEncodingOf(t, s) == UrlSafe(t) /\ percentDecode(t) = s

AuthorLookupsIn(reqs) == SelectSeq(reqs, LAMBDA r : r.kind = "author")

\* the reference list of the record shown, when it has one
shownRefs == authorsKey(book)[1]
hasRefs   == route = "book" /\ authorsKey(book) # None

----------------------------------------------------------------------------
(* C1 *)

\* C1: with an empty search string no request is issued and no card is
\* shown, in every mode: fetchBooks returns [] without building a URL, and
\* the query of an empty input is never run (no request, no data, no fetch
\* in any step taken while the input is empty).
C1_EmptySearchIssuesNothing ==
    /\ \A qt \in QueryTypes, page \in PageArgs :
         fetchBooksStart(qt, <<>>, page) = [returned |-> TRUE, url |-> <<>>]
    /\ \A qt \in QueryTypes : booksQ[<<qt, <<>> >>] = IdleQuery
    /\ search = <<>> => issued = <<>> /\ searchCards = <<>> /\ ~searchLoadingShown

\* the input has been cleared after a result had arrived for the first key
C1_Witness ==
    /\ search = <<>> /\ queryType = "title"
    /\ booksQ[<<"author", Tolkien>>].data # None
    /\ Len(booksQ[<<"author", Tolkien>>].data[1]) = 2

----------------------------------------------------------------------------
(* C2 *)

\* C2: for a non-empty search string fetchBooks issues exactly one GET, to
\* search/authors.json?q=<enc> in mode authors and to
\* search.json?<mode>=<enc>&page=<page> in the other modes, page 1 by
\* default, <enc> being the percent-encoded search string.
C2_UrlShape ==
    (fPc \in {"awaiting", "returned", "threw"} /\ fArgs.search # <<>>) =>
        /\ Len(fRequests) = 1
        /\ LET url == fRequests[1]
               n   == Len(url)
           IN IF fArgs.queryType = "authors"
              THEN /\ url[1] = "https://openlibrary.org/search/authors.json?q="
                   /\ IsEncodingOf(Tail(url), fArgs.search)
              ELSE /\ n >= 5
                   /\ url[1] = "https://openlibrary.org/search.json?"
                   /\ url[2] = fArgs.queryType
                   /\ url[3] = "="
                   /\ IsEncodingOf(SubSeq(url, 4, n - 2), fArgs.search)
                   /\ url[n - 1] = "&page="
                   /\ url[n] = IF fArgs.page = None THEN "1" ELSE ToString(fArgs.page[1])

\* an author search for a string with a reserved character is in flight
C2_Witness ==
    /\ fPc = "awaiting"
    /\ fArgs.queryType = "authors"
    /\ fArgs.search = <<"a", "&">>
    /\ fRequests = << <<"https://openlibrary.org/search/authors.json?q=", "a", "%", "2", "6">> >>

----------------------------------------------------------------------------
(* C3 *)

----------------------------------------------------------------------------
(* C4 *)

\* C4 as stated: a fan-out issues exactly N lookups, one per reference, in
\* one step, and the book content is never shown until all N lookups have
\* resolved.
C4_ContentOnlyAfterAllResolved ==
    /\ (hasRefs /\ AuthorLookupsIn(issued) # <<>>) =>
         AuthorLookupsIn(issued) =
           [i \in 1..Len(shownRefs) |-> AuthorRequest(shownRefs[i])]
    /\ (hasRefs /\ bookView = "content") =>
         /\ Len(fan[shownRefs]) = Len(shownRefs)
         /\ \A i \in 1..Len(shownRefs) : fan[shownRefs][i] = "ok"

\* C4 amended: a fan-out issues exactly N lookups, one per reference, in one
\* step before any of them is awaited; while the fan-out is awaited and no
\* author data of an earlier fan-out is cached the page shows the loading
\* state, and the book content is shown only once all N lookups have
\* resolved, or one has failed, or such cached data exists.
C4_FanOut ==
    /\ (hasRefs /\ AuthorLookupsIn(issued) # <<>>) =>
         /\ AuthorLookupsIn(issued) =
              [i \in 1..Len(shownRefs) |-> AuthorRequest(shownRefs[i])]
         /\ fan[shownRefs] = [i \in 1..Len(shownRefs) |-> "pending"]
    /\ (hasRefs /\ authorsQ[shownRefs].fetching /\ authorsQ[shownRefs].data = None) =>
         bookView = "loading"
    /\ (hasRefs /\ bookView = "content") =>
         /\ Len(fan[shownRefs]) = Len(shownRefs)
         /\ \/ \A i \in 1..Len(shownRefs) : fan[shownRefs][i] = "ok"
            \/ \E i \in 1..Len(shownRefs) : fan[shownRefs][i] = "failed"
            \/ authorsQ[shownRefs].data # None

\* both lookups of a record with two references have resolved and the
\* content is shown with both names
C4_Witness ==
    /\ route = "book" /\ bookView = "content"
    /\ authorsKey(book) = Some(<<"/authors/OL1A", "/authors/OL2A">>)
    /\ fan[<<"/authors/OL1A", "/authors/OL2A">>] = <<"ok", "ok">>
    /\ authorNames = <<"/authors/OL1A", "/authors/OL2A">>

----------------------------------------------------------------------------
(* C6 *)

\* C6: a fan-out with a failed lookup fails as a whole: the query ends in
\* error, what the other lookups returned is stored nowhere, and the author
\* data cached or shown for a reference list is never a part of the list.
C6_AllOrNothing ==
    /\ \A refs \in AuthorLists :
         /\ authorsQ[refs].data \in {None, Some(refs)}
         /\ (\E i \in 1..Len(fan[refs]) : fan[refs][i] = "failed") =>
              /\ ~authorsQ[refs].fetching
              /\ authorsQ[refs].status = "error"
    /\ hasRefs => authorNames \in {<<>>, shownRefs}

\* one lookup of two resolved, the other failed: no name is shown
C6_Witness ==
    /\ route = "book" /\ bookView = "content"
    /\ authorsKey(book) = Some(<<"/authors/OL1A", "/authors/OL2A">>)
    /\ fan[<<"/authors/OL1A", "/authors/OL2A">>] = <<"ok", "failed">>
    /\ authorNames = <<>>

----------------------------------------------------------------------------
(* C5 *)

primaryFailed   == route = "book" /\ isError(bookQ[bookId]) /\ ~bookQ[bookId].fetching
aggregateFailed == hasRefs /\ isError(authorsQuery) /\ ~authorsQuery.fetching
searchFailed    == route = "search" /\ isError(currentBooks)

\* C5 as stated: a failed primary fetch or a failed author fan-out shows
\* "Book not found" in place of the content, and a failed search shows
\* "Failed to fetch books" in place of the cards.
C5_FailureReplacesContent ==
    /\ (primaryFailed \/ aggregateFailed) => bookView \in {"not found", "loading"}
    /\ searchFailed => searchErrorShown /\ searchCards = <<>>

\* C5 amended: a failed primary fetch shows "Book not found" when no record
\* of the work is cached, and the cached record otherwise; a failed author
\* fan-out shows no failure message: once the work is loaded the content is
\* shown, with the author names cached earlier or none; a failed search
\* shows "Failed to fetch books", over the cards cached earlier for the same
\* key or none.
C5_FailureViews ==
    /\ (primaryFailed /\ book = None) => bookView = "not found"
    /\ (primaryFailed /\ book # None /\ ~authorsLoading) => bookView = "content"
    /\ (aggregateFailed /\ ~bookLoading) =>
         /\ bookView = "content"
         /\ authorNames = IF authors = None THEN <<>> ELSE shownRefs
    /\ searchFailed =>
         /\ searchErrorShown /\ ~searchLoadingShown /\ ~searchNoResultsShown
         /\ searchCards \in {<<>>} \cup
              {docsOrEntries(UpstreamPayload(fetchBooksUrl(queryType, search, None), sh)) :
                 sh \in UpstreamShapes}

\* the fan-out of the work shown has failed and the content is shown
C5_Witness ==
    /\ aggregateFailed /\ bookView = "content" /\ authorNames = <<>>
    /\ bookQ[bookId].status = "success"

----------------------------------------------------------------------------
(* C7 *)

InFlight(key) ==
    CASE key[1] = "books"   -> booksQ[key[2]].fetching
      [] key[1] = "book"    -> bookQ[key[2]].fetching
      [] key[1] = "authors" -> authorsQ[key[2]].fetching

----------------------------------------------------------------------------
(* C8 *)

\* C8: the card list shows the first min(15, n) entries of an n-entry
\* result, in upstream order, so never more than 15 (and none without data).
C8_AtMostFifteenCards ==
    (rPc = "rendered" /\ rInput.kind = "cards") =>
        IF rInput.data = None THEN rOutput = <<>>
        ELSE LET list == rInput.data[1]
             IN /\ Len(rOutput) <= 15
                /\ Len(rOutput) = IF Len(list) < 15 THEN Len(list) ELSE 15
                /\ \A i \in 1..Len(rOutput) : rOutput[i] = list[i]

\* a result of 17 entries has been rendered
C8_Witness ==
    /\ rPc = "rendered" /\ rInput.kind = "cards"
    /\ rInput.data # None /\ Len(rInput.data[1]) = 17
    /\ Len(rOutput) = 15

----------------------------------------------------------------------------
(* C9 *)

IsString(f) == f # None /\ f[1].type = "string"
IsObject(f) == f # None /\ f[1].type = "object"
Usable(f)   == IsObject(f) /\ f[1].text # None /\ f[1].text[1] # ""

\* C9 as stated: a plain string is rendered as it is, and an absent field
\* (or an object without a usable value) is rendered as the fallback
\* message, so that a text is rendered in every case.
C9_StringOrFallback ==
    (rPc = "rendered" /\ rInput.kind = "description") =>
        /\ rOutput # None
        /\ IsString(rInput.data) => rOutput = Some(rInput.data[1].text[1])
        /\ (rInput.data = None \/ (IsObject(rInput.data) /\ ~Usable(rInput.data))) =>
             rOutput = Some("No description available")

\* what one field is rendered as: nothing, or a text
ExpectedText(f, fallback) ==
    IF f = None \/ (IsString(f) /\ f[1].text[1] = "") THEN None
    ELSE IF IsString(f) THEN Some(f[1].text[1])
    ELSE IF Usable(f) THEN Some(f[1].text[1])
    ELSE Some(fallback)

\* C9 amended: a non-empty plain string is rendered as it is, an object as
\* its value when that is usable and as the fallback message otherwise; an
\* absent (or empty) field is rendered as nothing at all, neither text nor
\* fallback.  The same holds of each author's biography, and the biography
\* section is left out when no author has one.
C9_Normalization ==
    /\ (rPc = "rendered" /\ rInput.kind = "description") =>
         rOutput = ExpectedText(rInput.data, "No description available")
    /\ (rPc = "rendered" /\ rInput.kind = "bio") =>
         IF rInput.data = None
            \/ \A i \in 1..Len(rInput.data[1]) :
                 ExpectedText(rInput.data[1][i].bio, "No biography available") = None
         THEN rOutput = None
         ELSE /\ rOutput # None
              /\ Len(rOutput[1]) = Len(rInput.data[1])
              /\ \A i \in 1..Len(rInput.data[1]) :
                   LET e == ExpectedText(rInput.data[1][i].bio, "No biography available")
                   IN IF e = None THEN rOutput[1][i] = None
                      ELSE rOutput[1][i] =
                             Some([name |-> rInput.data[1][i].name, text |-> e[1]])

\* a work without a description has been rendered: no paragraph at all
C9_Witness ==
    /\ rPc = "rendered" /\ rInput.kind = "description"
    /\ rInput.data = None
    /\ rOutput = None

----------------------------------------------------------------------------
(* C10 *)

\* C10: every card shown comes from the response to the request of the
\* current (mode, search string) pair, and every cached result sits under
\* the key of the request it answers.
C10_CardsOfCurrentPair ==
    /\ \A i \in 1..Len(searchCards) :
         searchCards[i].from = fetchBooksUrl(queryType, search, None)
    /\ \A k \in BooksKeys :
         booksQ[k].data # None =>
           \A i \in 1..Len(booksQ[k].data[1]) :
             booksQ[k].data[1][i].from = fetchBooksUrl(k[1], k[2], None)

\* the result of the first pair is cached while the cards of another pair
\* are shown
C10_Witness ==
    /\ queryType = "title" /\ search = <<"a">>
    /\ Len(searchCards) = 2
    /\ booksQ[<<"author", Tolkien>>].data # None
    /\ Len(booksQ[<<"author", Tolkien>>].data[1]) = 2


====
